---- MODULE Spec2Model ----
(***************************************************************************)
(* Sales Manager (src/app.py): the merchandise, consumers and sales tables *)
(* of the SQLite store and the request handlers that read and write them.  *)
(*                                                                         *)
(* Spec      : requests are handled one after the other; every handler is  *)
(*             one action (all of its statements up to the response). All  *)
(*             merchandise carries the same price.                         *)
(* PriceSpec : the same handlers, with prices that differ and change, for  *)
(*             requests that carry a consumer and a positive quantity.     *)
(* ConcSpec  : record_sale requests run on two connections at once; every  *)
(*             SQL statement that is its own transaction is one step.      *)
(* InitSpec  : init_db and the before_request hook on a store file of any  *)
(*             shape: missing, partly created, legacy or current schema.   *)
(* RestoreSpec: backup_database and restore_database among the handlers.   *)
(* LedgerSpec: record_sale, update_sale and delete_sale run on two         *)
(*             connections at once, their two writes in one transaction    *)
(*             that a failure in between rolls back.                       *)
(* ColumnarSpec: the columnar restore insert by insert, over archives of   *)
(*             rows in every order.                                        *)
(* ReportSpec: get_sales with every filter on sales of different times.    *)
(***************************************************************************)
EXTENDS Integers, FiniteSets, Sequences, TLC

\* ---------------------------------------------------------------- bounds
MaxMerchandise == 2
MaxConsumers == 2
MaxSales == 2
MaxQuantity == 2
MaxPrice == 2

\* data.get('consumer_id') when the request carries none
None == 0

MerchandiseIds == 1..MaxMerchandise
ConsumerIds == 1..MaxConsumers
SaleIds == 1..MaxSales
\* the quantity a request may carry: the handlers take any JSON integer
QuantityArgs == (0 - 1)..MaxQuantity
StockArgs == 0..MaxQuantity
Prices == 1..MaxPrice
ConsumerArgs == ConsumerIds \cup {None}
Connections == {1, 2}

VARIABLES
    merchandise,      \* table merchandise: id -> [quantity, price]
    consumers,        \* table consumers: the set of ids
    sales,            \* table sales: id -> [merchandise_id, consumer_id, quantity_sold, unit_price, total_price]
    sqlite_sequence,  \* AUTOINCREMENT: table -> the largest id ever assigned
    last,             \* the response to the request handled last, with the arguments of
                      \* a request that was carried out
    initial_stock,    \* history: merchandise id -> the stock the ledger started from: the
                      \* quantity the item was created with or, once update_merchandise has
                      \* overridden it, the stock that override left the item with
    request,          \* ConcSpec, LedgerSpec: connection -> the request it is handling
    consumer_data,    \* table consumers: id -> the row's values in the columns the table has
                      \* besides id and name
    database,         \* the file DATABASE: "missing", "sqlite" (a readable store) or "garbage"
    schema,           \* the tables the file holds: table -> column -> the column's DEFAULT
    DB_INITIALIZED,   \* app.config['_DB_INITIALIZED']
    archive           \* the backup downloaded last

tables == <<merchandise, consumers, sales, sqlite_sequence>>
store_file == <<database, schema, DB_INITIALIZED, archive>>
vars == <<merchandise, consumers, sales, sqlite_sequence, last, initial_stock, request,
          consumer_data, database, schema, DB_INITIALIZED, archive>>

\* ------------------------------------------------------------- responses
Response(status, error) == [status |-> status, error |-> error]
Ok == Response(200, "none")
MerchandiseNotFound == Response(404, "merchandise_not_found")
ConsumerRequired == Response(400, "consumer_required")
ConsumerNotFound == Response(404, "consumer_not_found")
InsufficientStock == Response(400, "insufficient_stock")
InvalidQuantity == Response(400, "invalid_quantity")
SaleNotFound == Response(404, "sale_not_found")
MerchandiseHasSales == Response(400, "merchandise_has_sales")
ConsumerHasSales == Response(400, "consumer_has_sales")
MissingFile == Response(400, "missing_file")
UnsupportedRestoreFormat == Response(400, "unsupported_restore_format")
InvalidParquet == Response(400, "invalid_parquet")
UnsupportedBackupFormat == Response(400, "unsupported_backup_format")
\* an exception no handler catches
InternalServerError == Response(500, "internal_server_error")

\* the spec's error taxonomy over the handlers' responses
NotFound(resp) == resp.status = 404
Conflict(resp) == resp.error \in {"insufficient_stock", "merchandise_has_sales", "consumer_has_sales"}
InvalidArgument(resp) ==
    resp.error \in {"consumer_required", "invalid_quantity", "missing_file",
                    "unsupported_restore_format", "invalid_parquet", "unsupported_backup_format",
                    "invalid_date"}

Request(op, merchandise_id, consumer_id, sale_id, quantity_sold, resp) ==
    [op |-> op, merchandise_id |-> merchandise_id, consumer_id |-> consumer_id,
     sale_id |-> sale_id, quantity_sold |-> quantity_sold, resp |-> resp]

\* what is kept of a request: all of it when it was carried out, its response otherwise
Answer(op, merchandise_id, consumer_id, sale_id, quantity_sold, resp) ==
    IF resp.status = 200
    THEN Request(op, merchandise_id, consumer_id, sale_id, quantity_sold, resp)
    ELSE Request(op, 0, None, 0, 0, resp)

Idle == [pc |-> "idle", merchandise_id |-> 0, consumer_id |-> None, quantity_sold |-> 0,
         current_quantity |-> 0, price |-> 0, resp |-> Ok]

\* --------------------------------------------------------------- helpers
RECURSIVE SumQuantity(_, _)
SumQuantity(rows, ids) ==
    IF ids = {} THEN 0
    ELSE LET i == CHOOSE x \in ids : TRUE
         IN rows[i].quantity_sold + SumQuantity(rows, ids \ {i})

SalesOf(rows, merchandise_id) == {s \in DOMAIN rows : rows[s].merchandise_id = merchandise_id}
SalesTo(rows, consumer_id) == {s \in DOMAIN rows : rows[s].consumer_id = consumer_id}
SoldOf(merchandise_id) == SumQuantity(sales, SalesOf(sales, merchandise_id))

Insert(table, id, row) == [i \in DOMAIN table \cup {id} |-> IF i = id THEN row ELSE table[i]]
Delete(table, id) == [i \in DOMAIN table \ {id} |-> table[i]]

\* ---------------------------------------------------------------- schema
valid_tables == {"consumers", "merchandise", "sales"}

\* SQL NULL in a text or timestamp column (None in an integer column)
Null == "NULL"

\* CREATE TABLE IF NOT EXISTS ...: column -> its constraint. The columns no handler
\* computes with (name, description, sale_date, the timestamps of merchandise) are
\* left out.
CurrentSchema ==
    [merchandise |-> [id |-> "PRIMARY KEY AUTOINCREMENT", quantity |-> "NOT NULL DEFAULT 0",
                      price |-> "NOT NULL"],
     consumers |-> [id |-> "PRIMARY KEY AUTOINCREMENT", phone |-> "", address |-> "", notes |-> "",
                    created_at |-> "DEFAULT CURRENT_TIMESTAMP",
                    updated_at |-> "DEFAULT CURRENT_TIMESTAMP"],
     sales |-> [id |-> "PRIMARY KEY AUTOINCREMENT", merchandise_id |-> "NOT NULL", consumer_id |-> "",
                quantity_sold |-> "NOT NULL", unit_price |-> "NOT NULL", total_price |-> "NOT NULL"]]

\* the columns init_db adds to a consumers table that lacks them
MigratedConsumerColumns == {"phone", "address", "notes", "created_at", "updated_at"}

\* the store as one value: what the file DATABASE holds
Store(s, m, c, d, sl, seq) ==
    [schema |-> s, merchandise |-> m, consumers |-> c, consumer_data |-> d, sales |-> sl,
     sqlite_sequence |-> seq]

store == Store(schema, merchandise, consumers, consumer_data, sales, sqlite_sequence)

\* a file without tables: sqlite3.connect on a missing or empty file
EmptyFile == Store(<<>>, <<>>, {}, <<>>, <<>>, [merchandise |-> 0, consumers |-> 0, sales |-> 0])

\* the tables as init_db creates them in an empty file
EmptyStore == [EmptyFile EXCEPT !.schema = CurrentSchema]

Write(st) ==
    /\ schema' = st.schema
    /\ merchandise' = st.merchandise
    /\ consumers' = st.consumers
    /\ consumer_data' = st.consumer_data
    /\ sales' = st.sales
    /\ sqlite_sequence' = st.sqlite_sequence

NoArchive == [format |-> "none", parquet_rows |-> <<>>, store |-> EmptyFile]

Init ==
    /\ merchandise = <<>>
    /\ consumers = {}
    /\ sales = <<>>
    /\ sqlite_sequence = [merchandise |-> 0, consumers |-> 0, sales |-> 0]
    /\ last = Request("none", 0, None, 0, 0, Ok)
    /\ initial_stock = <<>>
    /\ request = [c \in Connections |-> Idle]
    /\ consumer_data = <<>>
    /\ database = "sqlite"
    /\ schema = CurrentSchema
    /\ DB_INITIALIZED = TRUE
    /\ archive = NoArchive

\* ------------------------------------------------- catalog and directory
add_merchandise(quantity, price) ==
    LET id == sqlite_sequence.merchandise + 1 IN
    /\ id <= MaxMerchandise
    /\ merchandise' = Insert(merchandise, id, [quantity |-> quantity, price |-> price])
    /\ sqlite_sequence' = [sqlite_sequence EXCEPT !.merchandise = id]
    /\ initial_stock' = Insert(initial_stock, id, quantity)
    /\ last' = Request("add_merchandise", id, None, 0, 0, Ok)
    /\ UNCHANGED <<consumers, sales, request, consumer_data, store_file>>

update_merchandise(merchandise_id, quantity, price) ==
    /\ merchandise' = IF merchandise_id \in DOMAIN merchandise
                      THEN [merchandise EXCEPT ![merchandise_id] = [quantity |-> quantity, price |-> price]]
                      ELSE merchandise
    /\ initial_stock' = IF merchandise_id \in DOMAIN merchandise
                        THEN [initial_stock EXCEPT ![merchandise_id] = quantity + SoldOf(merchandise_id)]
                        ELSE initial_stock
    /\ last' = Request("update_merchandise", merchandise_id, None, 0, 0, Ok)
    /\ UNCHANGED <<consumers, sales, sqlite_sequence, request, consumer_data, store_file>>

sales_count_merchandise(merchandise_id) == Cardinality(SalesOf(sales, merchandise_id))

delete_merchandise_response(merchandise_id) ==
    IF sales_count_merchandise(merchandise_id) > 0 THEN MerchandiseHasSales ELSE Ok

delete_merchandise(merchandise_id) ==
    LET resp == delete_merchandise_response(merchandise_id) IN
    /\ merchandise' = IF resp = Ok /\ merchandise_id \in DOMAIN merchandise
                      THEN Delete(merchandise, merchandise_id)
                      ELSE merchandise
    /\ initial_stock' = IF resp = Ok THEN Delete(initial_stock, merchandise_id) ELSE initial_stock
    /\ last' = Answer("delete_merchandise", merchandise_id, None, 0, 0, resp)
    /\ UNCHANGED <<consumers, sales, sqlite_sequence, request, consumer_data, store_file>>

\* the value a column takes when the INSERT does not name it
default_value(constraint) ==
    IF constraint = "DEFAULT CURRENT_TIMESTAMP" THEN "CURRENT_TIMESTAMP" ELSE Null

\* INSERT INTO consumers (name, phone, address, notes): data.get(..., '') in the three
\* columns, the column's default in the others
new_consumer(consumer_columns) ==
    [c \in DOMAIN consumer_columns \ {"id"} |->
        IF c \in {"phone", "address", "notes"} THEN "" ELSE default_value(consumer_columns[c])]

add_consumer ==
    LET id == sqlite_sequence.consumers + 1 IN
    /\ id <= MaxConsumers
    /\ consumers' = consumers \cup {id}
    /\ consumer_data' = Insert(consumer_data, id, new_consumer(schema.consumers))
    /\ sqlite_sequence' = [sqlite_sequence EXCEPT !.consumers = id]
    /\ last' = Request("add_consumer", 0, id, 0, 0, Ok)
    /\ UNCHANGED <<merchandise, sales, initial_stock, request, store_file>>

sales_count_consumer_by_sale_id(consumer_id) == Cardinality({s \in DOMAIN sales : s = consumer_id})

sales_count_consumer(consumer_id) == Cardinality(SalesTo(sales, consumer_id))

delete_consumer_response(consumer_id) ==
    IF sales_count_consumer(consumer_id) > 0 THEN ConsumerHasSales ELSE Ok

delete_consumer(consumer_id) ==
    LET resp == delete_consumer_response(consumer_id) IN
    /\ consumers' = IF resp = Ok THEN consumers \ {consumer_id} ELSE consumers
    /\ consumer_data' = IF resp = Ok THEN Delete(consumer_data, consumer_id) ELSE consumer_data
    /\ last' = Answer("delete_consumer", 0, consumer_id, 0, 0, resp)
    /\ UNCHANGED <<merchandise, sales, sqlite_sequence, initial_stock, request, store_file>>

\* ---------------------------------------------------------------- ledger
consumer_exists_unchecked(consumer_id) == TRUE

consumer_exists(consumer_id) == consumer_id \in consumers

insufficient_stock_off_by_one(current_quantity, quantity_sold) == current_quantity + 1 < quantity_sold

insufficient_stock(current_quantity, quantity_sold) == current_quantity < quantity_sold

\* the checks of record_sale, in the order the handler makes them
record_sale_response(merchandise_id, consumer_id, quantity_sold) ==
    IF merchandise_id \notin DOMAIN merchandise THEN MerchandiseNotFound
    ELSE IF consumer_id = None THEN ConsumerRequired
    ELSE IF ~consumer_exists(consumer_id) THEN ConsumerNotFound
    ELSE IF insufficient_stock(merchandise[merchandise_id].quantity, quantity_sold) THEN InsufficientStock
    ELSE Ok

new_sale_unit_total(merchandise_id, consumer_id, quantity_sold, price) ==
    [merchandise_id |-> merchandise_id, consumer_id |-> consumer_id,
     quantity_sold |-> quantity_sold, unit_price |-> price,
     total_price |-> price]

new_sale(merchandise_id, consumer_id, quantity_sold, price) ==
    [merchandise_id |-> merchandise_id, consumer_id |-> consumer_id,
     quantity_sold |-> quantity_sold, unit_price |-> price,
     total_price |-> price * quantity_sold]

adjust_quantity_added(rows, merchandise_id, amount) ==
    IF merchandise_id \in DOMAIN rows
    THEN [rows EXCEPT ![merchandise_id].quantity = @ + amount]
    ELSE rows

\* UPDATE merchandise SET quantity = quantity - ? WHERE id = ?
adjust_quantity(rows, merchandise_id, amount) ==
    IF merchandise_id \in DOMAIN rows
    THEN [rows EXCEPT ![merchandise_id].quantity = @ - amount]
    ELSE rows

record_sale(merchandise_id, consumer_id, quantity_sold) ==
    LET resp == record_sale_response(merchandise_id, consumer_id, quantity_sold)
        id == sqlite_sequence.sales + 1
    IN
    /\ resp = Ok => id <= MaxSales
    /\ last' = Answer("record_sale", merchandise_id, consumer_id, id, quantity_sold, resp)
    /\ IF resp = Ok
       THEN /\ sales' = Insert(sales, id, new_sale(merchandise_id, consumer_id, quantity_sold,
                                                   merchandise[merchandise_id].price))
            /\ merchandise' = adjust_quantity(merchandise, merchandise_id, quantity_sold)
            /\ sqlite_sequence' = [sqlite_sequence EXCEPT !.sales = id]
            /\ UNCHANGED consumers
       ELSE UNCHANGED tables
    /\ UNCHANGED <<initial_stock, request, consumer_data, store_file>>

\* the stock check of update_sale: only an increase is checked
stock_short(sale, quantity_diff) ==
    /\ quantity_diff > 0
    /\ \/ sale.merchandise_id \notin DOMAIN merchandise
       \/ merchandise[sale.merchandise_id].quantity < quantity_diff

\* the checks of update_sale, in the order the handler makes them
update_sale_response(sale_id, quantity_sold, consumer_id) ==
    IF quantity_sold <= 0 THEN InvalidQuantity
    ELSE IF consumer_id = None THEN ConsumerRequired
    ELSE IF ~consumer_exists(consumer_id) THEN ConsumerNotFound
    ELSE IF sale_id \notin DOMAIN sales THEN SaleNotFound
    ELSE IF stock_short(sales[sale_id], quantity_sold - sales[sale_id].quantity_sold) THEN InsufficientStock
    ELSE Ok

amended_total_price_current(sale, quantity_sold) ==
    merchandise[sale.merchandise_id].price * quantity_sold

amended_total_price(sale, quantity_sold) == sale.unit_price * quantity_sold

amended_sale_repriced(sale, quantity_sold, consumer_id) ==
    [sale EXCEPT !.consumer_id = consumer_id, !.quantity_sold = quantity_sold,
                 !.unit_price = merchandise[sale.merchandise_id].price,
                 !.total_price = merchandise[sale.merchandise_id].price * quantity_sold]

amended_sale(sale, quantity_sold, consumer_id) ==
    [sale EXCEPT !.consumer_id = consumer_id, !.quantity_sold = quantity_sold,
                 !.total_price = amended_total_price(sale, quantity_sold)]

\* the stock written before the stock check
update_sale_commit_early_write(resp, sale_id, quantity_sold, consumer_id) ==
    IF resp = Ok
    THEN /\ merchandise' = adjust_quantity(merchandise, sales[sale_id].merchandise_id,
                                           quantity_sold - sales[sale_id].quantity_sold)
         /\ sales' = [sales EXCEPT ![sale_id] = amended_sale(@, quantity_sold, consumer_id)]
         /\ UNCHANGED <<consumers, sqlite_sequence>>
    ELSE IF resp = InsufficientStock
    THEN /\ merchandise' = adjust_quantity(merchandise, sales[sale_id].merchandise_id,
                                           quantity_sold - sales[sale_id].quantity_sold)
         /\ UNCHANGED <<consumers, sales, sqlite_sequence>>
    ELSE UNCHANGED tables

\* what update_sale writes once it has answered resp
update_sale_commit(resp, sale_id, quantity_sold, consumer_id) ==
    IF resp = Ok
    THEN /\ merchandise' = adjust_quantity(merchandise, sales[sale_id].merchandise_id,
                                           quantity_sold - sales[sale_id].quantity_sold)
         /\ sales' = [sales EXCEPT ![sale_id] = amended_sale(@, quantity_sold, consumer_id)]
         /\ UNCHANGED <<consumers, sqlite_sequence>>
    ELSE UNCHANGED tables

update_sale(sale_id, quantity_sold, consumer_id) ==
    LET resp == update_sale_response(sale_id, quantity_sold, consumer_id) IN
    /\ last' = Answer("update_sale", 0, consumer_id, sale_id, quantity_sold, resp)
    /\ update_sale_commit(resp, sale_id, quantity_sold, consumer_id)
    /\ UNCHANGED <<initial_stock, request, consumer_data, store_file>>

restore_quantity_skipped(rows, merchandise_id, amount) == rows

\* UPDATE merchandise SET quantity = quantity + ? WHERE id = ?
restore_quantity(rows, merchandise_id, amount) ==
    IF merchandise_id \in DOMAIN rows
    THEN [rows EXCEPT ![merchandise_id].quantity = @ + amount]
    ELSE rows

delete_sale_response(sale_id) == IF sale_id \notin DOMAIN sales THEN SaleNotFound ELSE Ok

delete_sale(sale_id) ==
    LET resp == delete_sale_response(sale_id) IN
    /\ last' = Answer("delete_sale", 0, None, sale_id, 0, resp)
    /\ IF resp = Ok
       THEN /\ merchandise' = restore_quantity(merchandise, sales[sale_id].merchandise_id,
                                               sales[sale_id].quantity_sold)
            /\ sales' = Delete(sales, sale_id)
            /\ UNCHANGED <<consumers, sqlite_sequence>>
       ELSE UNCHANGED tables
    /\ UNCHANGED <<initial_stock, request, consumer_data, store_file>>

\* the requests of the API, their arguments drawn from the given sets
Requests(stocks, prices, quantities, consumer_args) ==
    \/ \E q \in stocks, p \in prices : add_merchandise(q, p)
    \/ \E m \in MerchandiseIds, q \in stocks, p \in prices : update_merchandise(m, q, p)
    \/ \E m \in MerchandiseIds : delete_merchandise(m)
    \/ add_consumer
    \/ \E c \in ConsumerIds : delete_consumer(c)
    \/ \E m \in MerchandiseIds, c \in consumer_args, q \in quantities : record_sale(m, c, q)
    \/ \E s \in SaleIds, c \in consumer_args, q \in quantities : update_sale(s, q, c)
    \/ \E s \in SaleIds : delete_sale(s)

Next == Requests(StockArgs, {MaxPrice}, QuantityArgs, ConsumerArgs)

Spec == Init /\ [][Next]_vars

PriceNext == Requests({MaxQuantity}, Prices, 1..MaxQuantity, ConsumerIds)

PriceSpec == Init /\ [][PriceNext]_vars

\* ------------------------------------------- record_sale, statement by statement
\* Each request has a connection of its own (get_db). The SELECTs run outside any
\* transaction; the INSERT opens one, which the commit ends: the two writes take
\* effect together, on the rows as they are by then.
begin_record_sale(conn, merchandise_id, consumer_id, quantity_sold) ==
    /\ request[conn].pc = "idle"
    /\ request' = [request EXCEPT ![conn] =
                       [Idle EXCEPT !.pc = "select_merchandise", !.merchandise_id = merchandise_id,
                                    !.consumer_id = consumer_id, !.quantity_sold = quantity_sold]]
    /\ UNCHANGED <<tables, last, initial_stock, consumer_data, store_file>>

select_merchandise(conn) ==
    LET r == request[conn] IN
    /\ r.pc = "select_merchandise"
    /\ request' = [request EXCEPT ![conn] =
                       IF r.merchandise_id \notin DOMAIN merchandise
                       THEN [r EXCEPT !.pc = "done", !.resp = MerchandiseNotFound]
                       ELSE [r EXCEPT !.pc = "select_consumer",
                                      !.current_quantity = merchandise[r.merchandise_id].quantity,
                                      !.price = merchandise[r.merchandise_id].price]]
    /\ UNCHANGED <<tables, last, initial_stock, consumer_data, store_file>>

select_consumer(conn) ==
    LET r == request[conn] IN
    /\ r.pc = "select_consumer"
    /\ request' = [request EXCEPT ![conn] =
                       IF r.consumer_id = None THEN [r EXCEPT !.pc = "done", !.resp = ConsumerRequired]
                       ELSE IF ~consumer_exists(r.consumer_id)
                       THEN [r EXCEPT !.pc = "done", !.resp = ConsumerNotFound]
                       ELSE IF insufficient_stock(r.current_quantity, r.quantity_sold)
                       THEN [r EXCEPT !.pc = "done", !.resp = InsufficientStock]
                       ELSE [r EXCEPT !.pc = "insert_sale"]]
    /\ UNCHANGED <<tables, last, initial_stock, consumer_data, store_file>>

commit_sale(conn) ==
    LET r == request[conn]
        id == sqlite_sequence.sales + 1
    IN
    /\ r.pc = "insert_sale"
    /\ id <= MaxSales
    /\ sales' = Insert(sales, id, new_sale(r.merchandise_id, r.consumer_id, r.quantity_sold, r.price))
    /\ merchandise' = adjust_quantity(merchandise, r.merchandise_id, r.quantity_sold)
    /\ sqlite_sequence' = [sqlite_sequence EXCEPT !.sales = id]
    /\ request' = [request EXCEPT ![conn] = [r EXCEPT !.pc = "done", !.resp = Ok]]
    /\ UNCHANGED <<consumers, last, initial_stock, consumer_data, store_file>>

close_connection(conn) ==
    /\ request[conn].pc = "done"
    /\ request' = [request EXCEPT ![conn] = Idle]
    /\ UNCHANGED <<tables, last, initial_stock, consumer_data, store_file>>

ConcNext ==
    \/ \E q \in StockArgs : add_merchandise(q, MaxPrice)
    \/ add_consumer
    \/ \E conn \in Connections, m \in MerchandiseIds, c \in ConsumerArgs, q \in 1..MaxQuantity :
           begin_record_sale(conn, m, c, q)
    \/ \E conn \in Connections : select_merchandise(conn)
    \/ \E conn \in Connections : select_consumer(conn)
    \/ \E conn \in Connections : commit_sale(conn)
    \/ \E conn \in Connections : close_connection(conn)

ConcSpec == Init /\ [][ConcNext]_vars

\* --------------------------------------------------------------- init_db
add_column_skipped(rows, column, null) == rows

\* ALTER TABLE ... ADD COLUMN: the rows that exist get NULL in the new column
add_column(rows, column, null) == [id \in DOMAIN rows |-> Insert(rows[id], column, null)]

\* CREATE TABLE IF NOT EXISTS for the three tables, then the columns older stores lack
init_db(st) ==
    LET created == [t \in valid_tables |->
                       IF t \in DOMAIN st.schema THEN st.schema[t] ELSE CurrentSchema[t]]
        sales_columns == DOMAIN created.sales
        consumer_columns == DOMAIN created.consumers
        added == MigratedConsumerColumns \ consumer_columns
    IN [st EXCEPT
          !.schema = [created EXCEPT
                        !.sales = IF "consumer_id" \in sales_columns THEN created.sales
                                  ELSE Insert(created.sales, "consumer_id", ""),
                        !.consumers = [c \in consumer_columns \cup added |->
                                          IF c \in consumer_columns THEN created.consumers[c] ELSE ""]],
          !.sales = IF "consumer_id" \in sales_columns THEN st.sales
                    ELSE add_column(st.sales, "consumer_id", None),
          !.consumer_data = [id \in DOMAIN st.consumer_data |->
                                [c \in DOMAIN st.consumer_data[id] \cup added |->
                                    IF c \in added THEN Null ELSE st.consumer_data[id][c]]]]

uninitialized_store(st) == st

\* if not app.config.get('_DB_INITIALIZED', False): init_db()
initialized_store(st) == init_db(st)

\* python run.py: init_db(), then a worker that has not served a request yet
main ==
    /\ database # "garbage"
    /\ Write(init_db(store))
    /\ database' = "sqlite"
    /\ DB_INITIALIZED' = FALSE
    /\ last' = Request("init_db", 0, None, 0, 0, Ok)
    /\ UNCHANGED <<initial_stock, request, archive>>

\* before_request: the first request of a worker runs init_db; on a file that is
\* not a store sqlite3 raises and the request ends there
ensure_db_initialized ==
    /\ ~DB_INITIALIZED
    /\ IF database = "garbage"
       THEN /\ last' = Request("ensure_db_initialized", 0, None, 0, 0, InternalServerError)
            /\ UNCHANGED <<tables, consumer_data, database, schema, DB_INITIALIZED>>
       ELSE /\ Write(initialized_store(store))
            /\ database' = "sqlite"
            /\ DB_INITIALIZED' = TRUE
            /\ last' = Request("ensure_db_initialized", 0, None, 0, 0, Ok)
    /\ UNCHANGED <<initial_stock, request, archive>>

\* ------------------------------------------------------ backup and restore
Min(ids) == CHOOSE x \in ids : \A y \in ids : x <= y

\* json.dumps(dict(row)): the members of the object, one <<key, value>> per column
RECURSIVE members(_, _)
members(row, keys) ==
    IF keys = {} THEN <<>>
    ELSE LET k == CHOOSE x \in keys : TRUE
         IN <<<<k, row[k]>>>> \o members(row, keys \ {k})

json_dumps(row) == [members |-> members(row, DOMAIN row), closed |-> TRUE]

\* json.loads(row_json): key -> the value of its last member
json_loads(row_json) ==
    LET ms == row_json.members IN
    [k \in {ms[i][1] : i \in DOMAIN ms} |->
        ms[CHOOSE i \in DOMAIN ms : ms[i][1] = k /\ \A j \in DOMAIN ms : ms[j][1] = k => j <= i][2]]

RECURSIVE fetchall_unkeyed(_, _)
fetchall_unkeyed(rows, ids) ==
    IF ids = {} THEN <<>>
    ELSE LET id == Min(ids)
         IN <<rows[id]>> \o fetchall_unkeyed(rows, ids \ {id})

\* cursor.fetchall() of SELECT * FROM table: dict(row) of every row, by rowid
RECURSIVE fetchall(_, _)
fetchall(rows, ids) ==
    IF ids = {} THEN <<>>
    ELSE LET id == Min(ids)
         IN <<Insert(rows[id], "id", id)>> \o fetchall(rows, ids \ {id})

table_rows(st, table) == IF table = "consumers" THEN st.consumer_data ELSE st[table]

\* the (table_name, row_data) pairs of one table
tagged(st, table) ==
    LET rows == fetchall(table_rows(st, table), DOMAIN table_rows(st, table))
    IN [i \in DOMAIN rows |-> <<table, json_dumps(rows[i])>>]

\* backup_data as COPY ... (FORMAT PARQUET) writes it and read_parquet reads it
backup_data(st) == tagged(st, "merchandise") \o tagged(st, "consumers") \o tagged(st, "sales")

BackupFormats == {"db", "parquet", "csv"}

backup_database_response(backup_format) ==
    IF backup_format \in {"parquet", "db"} THEN Ok ELSE UnsupportedBackupFormat

backup_database(backup_format) ==
    LET st == IF database = "missing" THEN init_db(EmptyFile) ELSE store IN
    /\ Write(st)
    /\ database' = "sqlite"
    /\ archive' = IF backup_format = "parquet"
                  THEN [format |-> "parquet", parquet_rows |-> backup_data(st), store |-> EmptyFile]
                  ELSE IF backup_format = "db"
                  THEN [format |-> "sqlite", parquet_rows |-> <<>>, store |-> st]
                  ELSE archive
    /\ last' = Request("backup_database", 0, None, 0, 0, backup_database_response(backup_format))
    /\ UNCHANGED <<initial_stock, request, DB_INITIALIZED>>

column_default_null(constraint, column) == Null

\* the value a column takes when the INSERT of restore does not name it
column_default(constraint, column) ==
    IF constraint = "NOT NULL DEFAULT 0" THEN 0
    ELSE IF column = "consumer_id" THEN None
    ELSE default_value(constraint)

with_rows(st, table, rows, id) ==
    LET seq == IF id > st.sqlite_sequence[table] THEN id ELSE st.sqlite_sequence[table] IN
    IF table = "consumers"
    THEN [st EXCEPT !.consumer_data = rows, !.consumers = DOMAIN rows, !.sqlite_sequence.consumers = seq]
    ELSE [st EXCEPT ![table] = rows, !.sqlite_sequence[table] = seq]

\* the outcome of the statements of restore that may raise: the store they leave
\* and whether they raised
Outcome(st, raised) == [store |-> st, raised |-> raised]

\* INSERT INTO table (restore_columns) VALUES (...) of one parsed row
insert_row(st, table, parsed_row) ==
    LET table_columns == st.schema[table]
        restore_columns == {key \in DOMAIN parsed_row : key \in DOMAIN table_columns}
        id == IF "id" \in restore_columns THEN parsed_row.id ELSE st.sqlite_sequence[table] + 1
        rows == table_rows(st, table)
        not_null == {c \in DOMAIN table_columns : table_columns[c] = "NOT NULL"}
    IN IF restore_columns = {} THEN Outcome(st, FALSE)
       ELSE IF id \in DOMAIN rows \/ ~(not_null \subseteq restore_columns) THEN Outcome(st, TRUE)
       ELSE Outcome(with_rows(st, table,
                              Insert(rows, id, [c \in DOMAIN table_columns \ {"id"} |->
                                                   IF c \in restore_columns THEN parsed_row[c]
                                                   ELSE column_default(table_columns[c], c)]),
                              id),
                    FALSE)

\* table_rows = [row_data for table_name, row_data in parquet_rows if table_name == table]
RECURSIVE rows_of(_, _)
rows_of(parquet_rows, table) ==
    IF parquet_rows = <<>> THEN <<>>
    ELSE (IF Head(parquet_rows)[1] = table THEN <<Head(parquet_rows)[2]>> ELSE <<>>)
         \o rows_of(Tail(parquet_rows), table)

\* for row_json in table_rows: json.loads, then the INSERT
RECURSIVE insert_rows(_, _, _)
insert_rows(st, table, row_jsons) ==
    IF row_jsons = <<>> THEN Outcome(st, FALSE)
    ELSE IF ~Head(row_jsons).closed THEN Outcome(st, TRUE)
    ELSE LET inserted == insert_row(st, table, json_loads(Head(row_jsons)))
         IN IF inserted.raised THEN inserted
            ELSE insert_rows(inserted.store, table, Tail(row_jsons))

\* for table in valid_tables: consumers, merchandise, sales
restore_rows(st, parquet_rows) ==
    LET c == insert_rows(st, "consumers", rows_of(parquet_rows, "consumers"))
        m == IF c.raised THEN c
             ELSE insert_rows(c.store, "merchandise", rows_of(parquet_rows, "merchandise"))
    IN IF m.raised THEN m
       ELSE insert_rows(m.store, "sales", rows_of(parquet_rows, "sales"))

\* the upload of a restore request: the name of the file, by its extension, and
\* what it holds
File(filename, content) ==
    [filename |-> filename, format |-> content.format, parquet_rows |-> content.parquet_rows,
     store |-> content.store]

Garbage == [format |-> "garbage", parquet_rows |-> <<>>, store |-> EmptyFile]

\* <<filename, what the file holds>>
Uploads ==
    {<<"", "garbage">>, <<".txt", "archive">>,
     <<".parquet", "archive">>, <<".parquet", "garbage">>, <<".parquet", "truncated">>,
     <<".parquet", "repeated">>,
     <<".db", "archive">>, <<".db", "garbage">>, <<".sqlite3", "archive">>}

\* what is uploaded: the backup downloaded last, as it is, with a row payload cut
\* short or with its rows twice, or bytes that are no archive
Content(kind) ==
    IF kind = "archive" /\ archive.format # "none" THEN archive
    ELSE IF kind = "truncated" /\ archive.format = "parquet"
    THEN [archive EXCEPT !.parquet_rows = Append(@, <<"sales", [members |-> <<>>, closed |-> FALSE]>>)]
    ELSE IF kind = "repeated" /\ archive.format = "parquet"
    THEN [archive EXCEPT !.parquet_rows = @ \o @]
    ELSE Garbage

RestoreExtensions == {".db", ".sqlite", ".sqlite3", ".parquet"}

supported_any(filename) == TRUE

\* filename.endswith(('.db', '.sqlite', '.sqlite3', '.parquet'))
supported(filename) == filename \in RestoreExtensions

read_parquet_unchecked(upload) == FALSE

\* read_parquet raises duckdb.Error on a file that is no parquet file
read_parquet_raises(upload) == upload.format # "parquet"

recreate_kept(st) == init_db(st)

\* os.remove(DATABASE), then init_db(): the three tables, empty
recreate(st) == init_db(EmptyFile)

\* restore_database up to its response: the response, the file it leaves and the flag
Restored(resp, file, st, initialized) ==
    [resp |-> resp, database |-> file, store |-> st, DB_INITIALIZED |-> initialized]

restore(upload) ==
    IF upload.filename = "" THEN Restored(MissingFile, database, store, DB_INITIALIZED)
    ELSE IF ~supported(upload.filename)
    THEN Restored(UnsupportedRestoreFormat, database, store, DB_INITIALIZED)
    ELSE IF upload.filename = ".parquet"
    THEN IF read_parquet_raises(upload)
         THEN Restored(InvalidParquet, database, store, DB_INITIALIZED)
         ELSE LET inserted == restore_rows(recreate(store), upload.parquet_rows)
              IN IF inserted.raised
                 THEN Restored(InternalServerError, "sqlite", recreate(store), TRUE)
                 ELSE Restored(Ok, "sqlite", init_db(inserted.store), TRUE)
    ELSE IF upload.format = "sqlite"
    THEN Restored(Ok, "sqlite", init_db(upload.store), TRUE)
    ELSE Restored(InternalServerError, "garbage", EmptyFile, FALSE)

restore_database(upload) ==
    LET restored == restore(upload)
        st == restored.store
    IN
    /\ last' = Request("restore_database", 0, None, 0, 0, restored.resp)
    /\ Write(st)
    /\ database' = restored.database
    /\ DB_INITIALIZED' = restored.DB_INITIALIZED
    /\ initial_stock' = IF restored.resp.status = 400 THEN initial_stock
                        ELSE [m \in DOMAIN st.merchandise |->
                                 st.merchandise[m].quantity
                                 + SumQuantity(st.sales, SalesOf(st.sales, m))]
    /\ UNCHANGED <<request, archive>>

\* a worker serving requests one after the other, backups and restores among them
RestoreNext ==
    \/ ensure_db_initialized
    \/ DB_INITIALIZED /\ add_merchandise(MaxQuantity, MaxPrice)
    \/ DB_INITIALIZED /\ add_consumer
    \/ DB_INITIALIZED /\ \E m \in MerchandiseIds, c \in ConsumerIds : record_sale(m, c, 1)
    \/ DB_INITIALIZED /\ \E s \in SaleIds : delete_sale(s)
    \/ DB_INITIALIZED /\ \E backup_format \in BackupFormats : backup_database(backup_format)
    \/ DB_INITIALIZED /\ \E upload \in Uploads : restore_database(File(upload[1], Content(upload[2])))

RestoreSpec == Init /\ [][RestoreNext]_vars

\* ------------------------------------------------- stores of older versions
\* a table as an older version created it: without the columns added since
LegacySchema(present, consumer_columns, sales_consumer_id) ==
    [t \in present |->
        IF t = "consumers"
        THEN [c \in {"id"} \cup consumer_columns |-> CurrentSchema.consumers[c]]
        ELSE IF t = "sales"
        THEN [c \in DOMAIN CurrentSchema.sales \ (IF sales_consumer_id THEN {} ELSE {"consumer_id"}) |->
                 CurrentSchema.sales[c]]
        ELSE CurrentSchema.merchandise]

\* a sale of one unit of item 1, as the version that wrote it stored it
LegacySale(sales_consumer_id, consumer_id) ==
    LET sale == new_sale(1, consumer_id, 1, MaxPrice) IN
    [c \in DOMAIN sale \ (IF sales_consumer_id THEN {} ELSE {"consumer_id"}) |-> sale[c]]

\* the store file a deployment finds: none, or one an older version left, with some
\* of the tables, some of the later columns, and rows
StoreInit ==
    \E present \in SUBSET valid_tables, consumer_columns \in SUBSET MigratedConsumerColumns,
       sales_consumer_id \in BOOLEAN, exists \in BOOLEAN,
       n \in 0..MaxConsumers, items \in 0..1, sold \in 0..1, consumer_id \in ConsumerArgs :
        /\ ~exists => present = {}
        /\ "consumers" \notin present => n = 0 /\ consumer_columns = {}
        /\ "merchandise" \notin present => items = 0
        /\ "sales" \notin present \/ items = 0 => sold = 0 /\ sales_consumer_id
        /\ sold = 0 \/ ~sales_consumer_id => consumer_id = None
        /\ consumer_id # None => consumer_id <= n
        /\ database = IF exists THEN "sqlite" ELSE "missing"
        /\ schema = LegacySchema(present, consumer_columns, sales_consumer_id)
        /\ consumers = 1..n
        /\ consumer_data = [id \in 1..n |-> [c \in consumer_columns |-> "legacy"]]
        /\ merchandise = [id \in 1..items |-> [quantity |-> MaxQuantity - sold, price |-> MaxPrice]]
        /\ sales = [id \in 1..sold |-> LegacySale(sales_consumer_id, consumer_id)]
        /\ sqlite_sequence = [merchandise |-> items, consumers |-> n, sales |-> sold]
        /\ initial_stock = [id \in 1..items |-> MaxQuantity]
        /\ last = Request("none", 0, None, 0, 0, Ok)
        /\ request = [c \in Connections |-> Idle]
        /\ DB_INITIALIZED = FALSE
        /\ archive = NoArchive

\* a deployment: the launch, the hook of the first request, then handlers
InitNext ==
    \/ main
    \/ ensure_db_initialized
    \/ DB_INITIALIZED /\ add_consumer
    \/ DB_INITIALIZED /\ \E c \in ConsumerIds : delete_consumer(c)
    \/ DB_INITIALIZED /\ \E m \in MerchandiseIds, c \in ConsumerIds : record_sale(m, c, 1)

InitSpec == StoreInit /\ [][InitNext]_vars

\* ------------------------------- the ledger handlers, statement by statement
\* As in ConcSpec the SELECTs run outside any transaction. The first INSERT, UPDATE
\* or DELETE of a connection opens a transaction (sqlite3's implicit BEGIN) that the
\* commit ends; a connection closed before the commit loses what it wrote.
NoSale == new_sale(0, None, 0, 0)

\* stock levels the ledger runs are followed through
StockRange == (0 - MaxQuantity)..(2 * MaxQuantity)

Pending(pc, op, merchandise_id, consumer_id, quantity_sold, sale_id, sale, price, resp) ==
    [pc |-> pc, op |-> op, merchandise_id |-> merchandise_id, consumer_id |-> consumer_id,
     quantity_sold |-> quantity_sold, sale_id |-> sale_id, sale |-> sale, price |-> price,
     resp |-> resp]

\* a request that has its response and waits for the teardown of its context
Answered(op, resp) == Pending("done", op, 0, None, 0, 0, NoSale, 0, resp)

\* record_sale up to its stock check, on the row it has read
check_record_sale(conn, merchandise_id, consumer_id, quantity_sold) ==
    LET resp == record_sale_response(merchandise_id, consumer_id, quantity_sold) IN
    /\ request[conn].pc = "idle"
    /\ request' = [request EXCEPT ![conn] =
                       IF resp # Ok
                       THEN Answered("record_sale", resp)
                       ELSE Pending("checked", "record_sale", merchandise_id, consumer_id, quantity_sold,
                                    0, NoSale, merchandise[merchandise_id].price, Ok)]
    /\ UNCHANGED <<tables, last, initial_stock, consumer_data, store_file>>

\* update_sale up to SELECT ... FROM sales: an amendment that sells no more goes on
\* to its writes, one that sells more to the stock check
select_sale_to_update(conn, sale_id, quantity_sold, consumer_id) ==
    LET resp == IF quantity_sold <= 0 THEN InvalidQuantity
                ELSE IF consumer_id = None THEN ConsumerRequired
                ELSE IF ~consumer_exists(consumer_id) THEN ConsumerNotFound
                ELSE IF sale_id \notin DOMAIN sales THEN SaleNotFound
                ELSE Ok
    IN
    /\ request[conn].pc = "idle"
    /\ request' = [request EXCEPT ![conn] =
                       IF resp # Ok
                       THEN Answered("update_sale", resp)
                       ELSE Pending(IF quantity_sold - sales[sale_id].quantity_sold > 0
                                    THEN "select_stock" ELSE "checked",
                                    "update_sale", sales[sale_id].merchandise_id, consumer_id,
                                    quantity_sold, sale_id, sales[sale_id], 0, Ok)]
    /\ UNCHANGED <<tables, last, initial_stock, consumer_data, store_file>>

\* SELECT quantity FROM merchandise and the stock check of update_sale
select_stock(conn) ==
    LET r == request[conn] IN
    /\ r.pc = "select_stock"
    /\ request' = [request EXCEPT ![conn] =
                       IF stock_short(r.sale, r.quantity_sold - r.sale.quantity_sold)
                       THEN Answered(r.op, InsufficientStock)
                       ELSE [r EXCEPT !.pc = "checked"]]
    /\ UNCHANGED <<tables, last, initial_stock, consumer_data, store_file>>

\* delete_sale up to SELECT ... FROM sales
select_sale_to_delete(conn, sale_id) ==
    LET resp == delete_sale_response(sale_id) IN
    /\ request[conn].pc = "idle"
    /\ request' = [request EXCEPT ![conn] =
                       IF resp # Ok
                       THEN Answered("delete_sale", resp)
                       ELSE Pending("checked", "delete_sale", sales[sale_id].merchandise_id, None, 0,
                                    sale_id, sales[sale_id], 0, Ok)]
    /\ UNCHANGED <<tables, last, initial_stock, consumer_data, store_file>>

\* the tables the two writes work on
Ledger(m, sl, seq) == [merchandise |-> m, sales |-> sl, sqlite_sequence |-> seq]

\* the first write of a handler, with the values the handler has read
first_statement(r, t) ==
    IF r.op = "record_sale"
    THEN [t EXCEPT !.sales = Insert(@, t.sqlite_sequence.sales + 1,
                                    new_sale(r.merchandise_id, r.consumer_id, r.quantity_sold, r.price)),
                   !.sqlite_sequence.sales = @ + 1]
    ELSE IF r.op = "update_sale"
    THEN [t EXCEPT !.merchandise = adjust_quantity(@, r.sale.merchandise_id,
                                                   r.quantity_sold - r.sale.quantity_sold)]
    ELSE [t EXCEPT !.merchandise = restore_quantity(@, r.sale.merchandise_id, r.sale.quantity_sold)]

\* its second write
second_statement(r, t) ==
    IF r.op = "record_sale"
    THEN [t EXCEPT !.merchandise = adjust_quantity(@, r.merchandise_id, r.quantity_sold)]
    ELSE IF r.op = "update_sale"
    THEN [t EXCEPT !.sales = IF r.sale_id \in DOMAIN @
                             THEN [@ EXCEPT ![r.sale_id] =
                                      [@ EXCEPT !.consumer_id = r.consumer_id,
                                                !.quantity_sold = r.quantity_sold,
                                                !.total_price = amended_total_price(r.sale, r.quantity_sold)]]
                             ELSE @]
    ELSE [t EXCEPT !.sales = Delete(@, r.sale_id)]

uncommitted_visible(before, after) == after

\* what the store shows of a write made inside a transaction that is still open
uncommitted(before, after) == before

WriteLedger(t) ==
    /\ merchandise' = t.merchandise
    /\ sales' = t.sales
    /\ sqlite_sequence' = t.sqlite_sequence

\* the first write: it opens the transaction, which waits for the write lock
first_write(conn) ==
    LET r == request[conn]
        t == Ledger(merchandise, sales, sqlite_sequence)
    IN
    /\ r.pc = "checked"
    /\ \A other \in Connections : request[other].pc # "written"
    /\ r.op = "record_sale" => sqlite_sequence.sales < MaxSales
    /\ WriteLedger(uncommitted(t, first_statement(r, t)))
    /\ request' = [request EXCEPT ![conn] = [r EXCEPT !.pc = "written"]]
    /\ UNCHANGED <<consumers, last, initial_stock, consumer_data, store_file>>

\* the second write and db.commit()
commit(conn) ==
    LET r == request[conn]
        t == Ledger(merchandise, sales, sqlite_sequence)
    IN
    /\ r.pc = "written"
    /\ WriteLedger(second_statement(r, first_statement(r, t)))
    /\ \A m \in DOMAIN merchandise : merchandise'[m].quantity \in StockRange
    /\ request' = [request EXCEPT ![conn] = Answered(r.op, Ok)]
    /\ UNCHANGED <<consumers, last, initial_stock, consumer_data, store_file>>

\* an exception between the two writes: the request ends without db.commit()
abort(conn) ==
    LET r == request[conn] IN
    /\ r.pc = "written"
    /\ request' = [request EXCEPT ![conn] = Answered(r.op, InternalServerError)]
    /\ UNCHANGED <<tables, last, initial_stock, consumer_data, store_file>>

\* one item in stock and one consumer, as add_merchandise and add_consumer leave them
LedgerInit ==
    /\ merchandise = <<[quantity |-> MaxQuantity, price |-> MaxPrice]>>
    /\ consumers = {1}
    /\ consumer_data = <<new_consumer(CurrentSchema.consumers)>>
    /\ sales = <<>>
    /\ sqlite_sequence = [merchandise |-> 1, consumers |-> 1, sales |-> 0]
    /\ last = Request("add_consumer", 0, 1, 0, 0, Ok)
    /\ initial_stock = <<MaxQuantity>>
    /\ request = [c \in Connections |-> Idle]
    /\ database = "sqlite"
    /\ schema = CurrentSchema
    /\ DB_INITIALIZED = TRUE
    /\ archive = NoArchive

LedgerNext ==
    \/ \E conn \in Connections, m \in DOMAIN merchandise, c \in consumers, q \in 1..MaxQuantity :
           check_record_sale(conn, m, c, q)
    \/ \E conn \in Connections, s \in SaleIds, c \in consumers, q \in 1..MaxQuantity :
           select_sale_to_update(conn, s, q, c)
    \/ \E conn \in Connections : select_stock(conn)
    \/ \E conn \in Connections, s \in SaleIds : select_sale_to_delete(conn, s)
    \/ \E conn \in Connections : first_write(conn)
    \/ \E conn \in Connections : commit(conn)
    \/ \E conn \in Connections : abort(conn)
    \/ \E conn \in Connections : close_connection(conn)

LedgerSpec == LedgerInit /\ [][LedgerNext]_vars

\* -------------------------------------- the columnar restore, insert by insert
\* restore_database from its loop over the tables on: the store has been removed
\* and created anew, and each step is one INSERT of the restoring connection,
\* which db.commit() publishes at the end.
ArchiveLen == 3

restore_order_sales_first == <<"sales", "consumers", "merchandise">>

\* valid_tables as the loops of restore_database go through it
restore_order == <<"consumers", "merchandise", "sales">>

\* rows as backups of this and of other versions hold them: with every column, without
\* the columns added since, with a field this version has no column for, with
\* nothing but such a field, and without a column that is required
ArchivePool ==
    <<
      <<"merchandise", [id |-> 1, quantity |-> MaxQuantity, price |-> MaxPrice]>>,
      <<"merchandise", [id |-> 2, price |-> 1, barcode |-> "4006381"]>>,
      <<"merchandise", [id |-> 2, quantity |-> 1]>>,
      <<"consumers", new_consumer(CurrentSchema.consumers) @@ [id |-> 1]>>,
      <<"consumers", [id |-> 2, phone |-> "legacy"]>>,
      <<"sales", new_sale(1, 1, 1, MaxPrice) @@ [id |-> 1]>>,
      <<"sales", [id |-> 2, merchandise_id |-> 1, quantity_sold |-> 1, unit_price |-> 1,
                  total_price |-> 1, discount |-> 1]>>,
      <<"sales", [discount |-> 1]>>
    >>

\* the archives of ArchiveLen different rows of the pool, in every order
ArchiveOrders ==
    {order \in [1..ArchiveLen -> DOMAIN ArchivePool] :
        \A i, j \in 1..ArchiveLen : i # j => order[i] # order[j]}

parquet_rows_of(order) ==
    [i \in 1..ArchiveLen |-> <<ArchivePool[order[i]][1], json_dumps(ArchivePool[order[i]][2])>>]

\* the restoring request: the table its outer loop is at and the rows it has left
Restoring(pc, position, rows, resp) ==
    [pc |-> pc, position |-> position, table_rows |-> rows, resp |-> resp]

\* the next row_json of the inner loop: json.loads, then the INSERT
restore_insert(conn) ==
    LET r == request[conn]
        row_json == Head(r.table_rows)
        inserted == IF row_json.closed
                    THEN insert_row(store, restore_order[r.position], json_loads(row_json))
                    ELSE Outcome(store, TRUE)
    IN
    /\ r.pc = "insert"
    /\ r.table_rows # <<>>
    /\ IF inserted.raised
       THEN /\ Write(recreate(store))
            /\ request' = [request EXCEPT ![conn] = Restoring("done", 0, <<>>, InternalServerError)]
            /\ last' = Request("restore_database", 0, None, 0, 0, InternalServerError)
       ELSE /\ Write(inserted.store)
            /\ request' = [request EXCEPT ![conn] = [r EXCEPT !.table_rows = Tail(@)]]
            /\ UNCHANGED last
    /\ UNCHANGED <<initial_stock, store_file>>

\* the outer loop goes on to the next table
restore_next_table(conn) ==
    LET r == request[conn] IN
    /\ r.pc = "insert"
    /\ r.table_rows = <<>>
    /\ r.position < Len(restore_order)
    /\ request' = [request EXCEPT ![conn] =
                       Restoring("insert", r.position + 1,
                                 rows_of(archive.parquet_rows, restore_order[r.position + 1]), Ok)]
    /\ UNCHANGED <<tables, last, initial_stock, consumer_data, store_file>>

\* db.commit() after the last table, then init_db() and the response
restore_commit(conn) ==
    LET r == request[conn]
        st == init_db(store)
    IN
    /\ r.pc = "insert"
    /\ r.table_rows = <<>>
    /\ r.position = Len(restore_order)
    /\ Write(st)
    /\ request' = [request EXCEPT ![conn] = Restoring("done", 0, <<>>, Ok)]
    /\ last' = Request("restore_database", 0, None, 0, 0, Ok)
    /\ initial_stock' = [m \in DOMAIN st.merchandise |->
                            st.merchandise[m].quantity + SumQuantity(st.sales, SalesOf(st.sales, m))]
    /\ UNCHANGED store_file

\* a restore request that has read its archive, removed the store and created the
\* tables anew
ColumnarInit ==
    \E order \in ArchiveOrders :
        /\ archive = [format |-> "parquet", parquet_rows |-> parquet_rows_of(order), store |-> EmptyFile]
        /\ request = [c \in Connections |->
                         IF c = 1
                         THEN Restoring("insert", 1,
                                        rows_of(parquet_rows_of(order), restore_order[1]), Ok)
                         ELSE Idle]
        /\ merchandise = <<>>
        /\ consumers = {}
        /\ consumer_data = <<>>
        /\ sales = <<>>
        /\ sqlite_sequence = [merchandise |-> 0, consumers |-> 0, sales |-> 0]
        /\ schema = CurrentSchema
        /\ database = "sqlite"
        /\ DB_INITIALIZED = TRUE
        /\ initial_stock = <<>>
        /\ last = Request("backup_database", 0, None, 0, 0, Ok)

ColumnarNext ==
    \/ \E conn \in Connections : restore_insert(conn)
    \/ \E conn \in Connections : restore_next_table(conn)
    \/ \E conn \in Connections : restore_commit(conn)
    \/ \E conn \in Connections : close_connection(conn)

ColumnarSpec == ColumnarInit /\ [][ColumnarNext]_vars

\* ------------------------------------------------------------ the sales report
\* Timestamps are counted in ticks: TicksPerDay to a day, the first of them
\* 00:00:00 and the last 23:59:59, DaysPerMonth days to a month. 'YYYY-MM-DD
\* HH:MM:SS' strings compare as these numbers do.
TicksPerDay == 2
DaysPerMonth == 2
Months == 2
\* the thirty days of last_30_days, at the scale of this calendar
ThirtyDays == 2

Days == 1..(Months * DaysPerMonth)
Times == TicksPerDay..((Months * DaysPerMonth + 1) * TicksPerDay - 1)

InvalidDate == Response(400, "invalid_date")

\* a start_date or end_date of the query string: absent, empty, a date, or a text
\* that is no date
DateArg(kind, day) == [kind |-> kind, day |-> day]
DateArgs ==
    {DateArg("absent", 0), DateArg("empty", 0), DateArg("malformed", 0)}
        \cup {DateArg("date", day) : day \in Days}

Periods == {"all", "last_month", "this_month", "last_30_days", "yesterday"}

\* the truth value of request.args.get(...): None and '' are false
supplied(date) == date.kind \notin {"absent", "empty"}

\* datetime.strptime(date, '%Y-%m-%d') raises ValueError
strptime_raises(date) == date.kind = "malformed"

\* start.strftime('%Y-%m-%d 00:00:00') and end.strftime('%Y-%m-%d 23:59:59')
start_of_day(day) == day * TicksPerDay
end_of_day(day) == day * TicksPerDay + TicksPerDay - 1

\* datetime.now().replace(day=1, hour=0, minute=0, second=0, microsecond=0)
first_day_of_month(now) ==
    start_of_day((((now \div TicksPerDay) - 1) \div DaysPerMonth) * DaysPerMonth + 1)

first_day_this_month(now) == first_day_of_month(now)
last_day_last_month(now) == first_day_this_month(now) - 1
first_day_last_month(now) == first_day_of_month(last_day_last_month(now))
thirty_days_ago(now) == now - ThirtyDays * TicksPerDay

Condition(comparison, param) == [comparison |-> comparison, param |-> param]

period_conditions(period, now) ==
    IF period = "last_month"
    THEN <<Condition(">=", first_day_last_month(now)), Condition("<=", last_day_last_month(now))>>
    ELSE IF period = "this_month" THEN <<Condition(">=", first_day_this_month(now))>>
    ELSE IF period = "last_30_days" THEN <<Condition(">=", thirty_days_ago(now))>>
    ELSE <<>>

date_conditions(start_date, end_date) ==
    (IF supplied(start_date) THEN <<Condition(">=", start_of_day(start_date.day))>> ELSE <<>>)
        \o (IF supplied(end_date) THEN <<Condition("<=", end_of_day(end_date.day))>> ELSE <<>>)

conditions_period_first(period, start_date, end_date, now) ==
    IF period_conditions(period, now) # <<>> THEN period_conditions(period, now)
    ELSE date_conditions(start_date, end_date)

\* the WHERE clause: the date range if a date is supplied, else the period
conditions(period, start_date, end_date, now) ==
    IF supplied(start_date) \/ supplied(end_date)
    THEN date_conditions(start_date, end_date)
    ELSE period_conditions(period, now)

get_sales_response(start_date, end_date) ==
    IF (supplied(start_date) /\ strptime_raises(start_date))
           \/ (supplied(end_date) /\ strptime_raises(end_date))
    THEN InvalidDate
    ELSE Ok

\* FROM sales s JOIN merchandise m ... LEFT JOIN consumers c ... WHERE the conditions
selected(where) ==
    {s \in DOMAIN sales :
        /\ sales[s].merchandise_id \in DOMAIN merchandise
        /\ \A i \in DOMAIN where :
               IF where[i].comparison = ">=" THEN sales[s].sale_date >= where[i].param
               ELSE sales[s].sale_date <= where[i].param}

\* ORDER BY s.sale_date DESC: the rows in any order that does not ascend
ordered(ids) ==
    {rows \in [1..Cardinality(ids) -> ids] :
        /\ \A i, j \in DOMAIN rows : i # j => rows[i] # rows[j]
        /\ \A i, j \in DOMAIN rows : i < j => sales[rows[i]].sale_date >= sales[rows[j]].sale_date}

\* a request for the report and what it has answered
Report(pc, period, start_date, end_date, now, resp, rows) ==
    [pc |-> pc, op |-> "get_sales", period |-> period, start_date |-> start_date,
     end_date |-> end_date, now |-> now, resp |-> resp, rows |-> rows]

get_sales(conn, period, start_date, end_date, now) ==
    LET resp == get_sales_response(start_date, end_date) IN
    /\ request[conn].pc = "idle"
    /\ \E rows \in IF resp = Ok THEN ordered(selected(conditions(period, start_date, end_date, now)))
                   ELSE {<<>>} :
           request' = [request EXCEPT ![conn] =
                           Report("done", period, start_date, end_date, now, resp, rows)]
    /\ UNCHANGED <<tables, last, initial_stock, consumer_data, store_file>>

\* a sale of one unit of item 1 to consumer 1, with the CURRENT_TIMESTAMP of its INSERT
dated_sale(sale_date) == new_sale(1, 1, 1, MaxPrice) @@ [sale_date |-> sale_date]

\* one item, one consumer and the sales that record_sale left at any times
ReportInit ==
    \E n \in 0..MaxSales : \E dates \in [1..n -> Times] :
        /\ merchandise = <<[quantity |-> MaxQuantity, price |-> MaxPrice]>>
        /\ consumers = {1}
        /\ consumer_data = <<new_consumer(CurrentSchema.consumers)>>
        /\ sales = [i \in 1..n |-> dated_sale(dates[i])]
        /\ sqlite_sequence = [merchandise |-> 1, consumers |-> 1, sales |-> n]
        /\ last = IF n = 0 THEN Request("add_consumer", 0, 1, 0, 0, Ok)
                  ELSE Request("record_sale", 1, 1, n, 1, Ok)
        /\ initial_stock = <<MaxQuantity + n>>
        /\ request = [c \in Connections |-> Idle]
        /\ database = "sqlite"
        /\ schema = CurrentSchema
        /\ DB_INITIALIZED = TRUE
        /\ archive = NoArchive

ReportNext ==
    \/ \E period \in Periods, start_date \in DateArgs, end_date \in DateArgs, now \in Times :
           get_sales(1, period, start_date, end_date, now)
    \/ close_connection(1)

ReportSpec == ReportInit /\ [][ReportNext]_vars

\* ================================================================ claims
Failed(op) == last'.op = op /\ last'.resp.status # 200
Succeeded(op) == last'.op = op /\ last'.resp.status = 200

\* C1: after every request, an item's quantity is the stock its ledger started from
\* (the quantity it was created with, when update_merchandise never wrote it) minus
\* the quantity_sold of the sales that exist and reference it.
C1_LedgerInvariant ==
    \A m \in DOMAIN merchandise : merchandise[m].quantity = initial_stock[m] - SoldOf(m)

\* a sale was reversed, the other one amended, and its item is below its stock
C1_Witness ==
    /\ last.op = "update_sale" /\ last.resp = Ok
    /\ sqlite_sequence.sales = MaxSales /\ Cardinality(DOMAIN sales) = 1
    /\ \E m \in DOMAIN merchandise : SoldOf(m) > 0 /\ initial_stock[m] = MaxQuantity

\* C2: with record_sale requests running at once on connections of their own, the
\* sales recorded for an item never total more than the stock it had, and its
\* quantity never goes below zero.
C2_NoOversell ==
    \A m \in DOMAIN merchandise :
        /\ merchandise[m].quantity >= 0
        /\ SoldOf(m) <= initial_stock[m]

\* C3: record_sale for an existing item and an existing consumer with a quantity_sold
\* above the item's quantity answers Conflict (insufficient stock), and a record_sale
\* answered so inserts no sale and leaves every quantity as it was.
C3_Rejects ==
    \A m \in DOMAIN merchandise, c \in consumers :
        \A q \in QuantityArgs \cup {merchandise[m].quantity + 1} :
            q > merchandise[m].quantity =>
                /\ record_sale_response(m, c, q) = InsufficientStock
                /\ Conflict(record_sale_response(m, c, q))

C3_InsufficientStock ==
    /\ []C3_Rejects
    /\ [][last'.op = "record_sale" /\ last'.resp = InsufficientStock => UNCHANGED tables]_vars

C3_Witness ==
    /\ last.op = "record_sale" /\ last.resp = InsufficientStock
    /\ sales # <<>>
    /\ \E m \in DOMAIN merchandise : merchandise[m].quantity = 1

\* C4: amending an existing sale, with an existing consumer, to a quantity that
\* exceeds the old one by more than the item's quantity answers Conflict and changes
\* nothing; amending it to a smaller positive quantity succeeds and adds
\* old_quantity_sold - new_quantity_sold to the item's quantity.
C4_Amendable(quantities) ==
    \A s \in DOMAIN sales, c \in consumers, q \in quantities :
        LET old == sales[s].quantity_sold
            m == sales[s].merchandise_id
        IN /\ q - old > merchandise[m].quantity => update_sale_response(s, q, c) = InsufficientStock
           /\ q >= 1 /\ q < old => update_sale_response(s, q, c) = Ok

C4_Effect ==
    /\ Failed("update_sale") => UNCHANGED tables
    /\ Succeeded("update_sale") /\ last'.quantity_sold < sales[last'.sale_id].quantity_sold =>
           LET old == sales[last'.sale_id] IN
           merchandise' = [merchandise EXCEPT ![old.merchandise_id].quantity =
                               @ + (old.quantity_sold - last'.quantity_sold)]

C4_AmendStockCheck ==
    /\ []C4_Amendable(QuantityArgs \cup {MaxQuantity + 1})
    /\ [][C4_Effect]_vars

\* C5: a successful update_sale changes the item's quantity by old_quantity_sold -
\* new_quantity, sets the sale's quantity_sold, consumer_id and total_price (the sale's
\* stored unit_price times the new quantity) and changes nothing else.
C5_AmendEffect ==
    [][Succeeded("update_sale") =>
          LET s == last'.sale_id
              old == sales[s]
              m == old.merchandise_id
          IN /\ s \in DOMAIN sales
             /\ m \in DOMAIN merchandise
             /\ merchandise' = [merchandise EXCEPT ![m].quantity =
                                    @ + (old.quantity_sold - last'.quantity_sold)]
             /\ sales' = [sales EXCEPT ![s] =
                              [merchandise_id |-> m,
                               consumer_id |-> last'.consumer_id,
                               quantity_sold |-> last'.quantity_sold,
                               unit_price |-> old.unit_price,
                               total_price |-> old.unit_price * last'.quantity_sold]]
             /\ UNCHANGED <<consumers, sqlite_sequence>>]_vars

\* an amended sale whose unit_price is no longer its item's price, beside another
\* sale of another item to another consumer
C5_Witness ==
    /\ last.op = "update_sale" /\ last.resp = Ok
    /\ last.sale_id \in DOMAIN sales
    /\ LET sale == sales[last.sale_id] IN
       /\ sale.quantity_sold = last.quantity_sold
       /\ sale.unit_price # merchandise[sale.merchandise_id].price
       /\ \E t \in DOMAIN sales : /\ sales[t].merchandise_id # sale.merchandise_id
                                   /\ sales[t].consumer_id # sale.consumer_id

\* C6: a successful delete_sale adds the sale's quantity_sold to its item's quantity
\* and removes the row; the sale's id never names a row again, and amending or
\* deleting it answers NotFound.
Reversed == (1..sqlite_sequence.sales) \ DOMAIN sales

C6_Gone ==
    \A s \in Reversed :
        /\ delete_sale_response(s) = SaleNotFound
        /\ \A q \in 1..MaxQuantity, c \in consumers : update_sale_response(s, q, c) = SaleNotFound
        /\ NotFound(SaleNotFound)

C6_Reversal ==
    /\ []C6_Gone
    /\ [][/\ Succeeded("delete_sale") =>
                LET s == last'.sale_id IN
                /\ s \in DOMAIN sales
                /\ sales[s].merchandise_id \in DOMAIN merchandise
                /\ merchandise' = [merchandise EXCEPT ![sales[s].merchandise_id].quantity =
                                       @ + sales[s].quantity_sold]
                /\ sales' = [t \in DOMAIN sales \ {s} |-> sales[t]]
                /\ s \in Reversed'
          /\ Reversed \subseteq Reversed']_vars

\* the amended sale was reversed and its item is back at its stock, another sale stays
C6_Witness ==
    /\ last.op = "delete_sale" /\ last.resp = Ok
    /\ last.sale_id \in Reversed
    /\ sales # <<>>
    /\ \E m \in DOMAIN merchandise :
          SalesOf(sales, m) = {} /\ merchandise[m].quantity = MaxQuantity /\ initial_stock[m] = MaxQuantity

\* C7: delete_merchandise and delete_consumer answer Conflict and remove nothing
\* while a sale references the entity, and remove it when none does.
C7_Guarded ==
    /\ \A m \in MerchandiseIds :
          delete_merchandise_response(m) =
              IF \E s \in DOMAIN sales : sales[s].merchandise_id = m
              THEN MerchandiseHasSales ELSE Ok
    /\ \A c \in ConsumerIds :
          delete_consumer_response(c) =
              IF \E s \in DOMAIN sales : sales[s].consumer_id = c
              THEN ConsumerHasSales ELSE Ok
    /\ Conflict(MerchandiseHasSales) /\ Conflict(ConsumerHasSales)

C7_DeletionGuard ==
    /\ []C7_Guarded
    /\ [][/\ Failed("delete_merchandise") \/ Failed("delete_consumer") => UNCHANGED tables
          /\ Succeeded("delete_merchandise") =>
                /\ last'.merchandise_id \notin DOMAIN merchandise'
                /\ merchandise' = [m \in DOMAIN merchandise \ {last'.merchandise_id} |-> merchandise[m]]
                /\ UNCHANGED <<consumers, sales, sqlite_sequence>>
          /\ Succeeded("delete_consumer") =>
                /\ consumers' = consumers \ {last'.consumer_id}
                /\ UNCHANGED <<merchandise, sales, sqlite_sequence>>]_vars

\* the only item ever created was sold, every sale was reversed, and it is deleted
C7_Witness ==
    /\ last.op = "delete_merchandise" /\ last.resp = Ok
    /\ sqlite_sequence.merchandise = 1 /\ merchandise = <<>>
    /\ sqlite_sequence.sales >= 1 /\ sales = <<>>

\* C8: record_sale with a quantity_sold of zero or less answers InvalidArgument and
\* writes nothing, so that every sale has quantity_sold >= 1.
C8_PositiveQuantity ==
    /\ \A s \in DOMAIN sales : sales[s].quantity_sold >= 1
    /\ \A m \in DOMAIN merchandise, c \in consumers, q \in QuantityArgs :
          q <= 0 => InvalidArgument(record_sale_response(m, c, q))

\* C9: a ledger or deletion request that answers an error leaves every row as it was.
C9_NoPartialWrite ==
    [][last'.resp.status # 200 =>
          /\ last'.op \in {"record_sale", "update_sale", "delete_sale",
                            "delete_merchandise", "delete_consumer"}
          /\ NotFound(last'.resp) \/ InvalidArgument(last'.resp) \/ Conflict(last'.resp)
          /\ UNCHANGED tables]_vars

\* an amendment refused for lack of stock, with both sales in place
C9_Witness ==
    /\ last.op = "update_sale" /\ last.resp = InsufficientStock
    /\ Cardinality(DOMAIN sales) = MaxSales

\* C10: every sale references an item that exists and a consumer that exists.
C10_References ==
    \A s \in DOMAIN sales :
        /\ sales[s].merchandise_id \in DOMAIN merchandise
        /\ sales[s].consumer_id # None
        /\ sales[s].consumer_id \in consumers

\* two sales stand while an item and a consumer have been deleted
C10_Witness ==
    /\ Cardinality(DOMAIN sales) = MaxSales
    /\ Cardinality(DOMAIN merchandise) < sqlite_sequence.merchandise
    /\ Cardinality(consumers) < sqlite_sequence.consumers

\* the rows of the three tables of a store
Rows(st) ==
    [merchandise |-> st.merchandise, consumers |-> st.consumers,
     consumer_data |-> st.consumer_data, sales |-> st.sales]

C12_Rejected ==
    DB_INITIALIZED =>
        /\ restore(File(".parquet", Garbage)) = Restored(InvalidParquet, database, store, DB_INITIALIZED)
        /\ InvalidArgument(InvalidParquet)

C12_MalformedArchive ==
    /\ []C12_Rejected
    /\ [][last'.op = "restore_database" /\ last'.resp = InvalidParquet =>
              UNCHANGED <<tables, consumer_data, store_file>>]_vars

C12_Witness ==
    /\ last.op = "restore_database" /\ last.resp = InvalidParquet
    /\ sales # <<>>
    /\ database = "sqlite"

\* C13: a restore that fails leaves the store as it was before the request.
C13_FailedRestoreKeepsStore ==
    [][last'.op = "restore_database" /\ last'.resp.status # 200 =>
          UNCHANGED <<tables, consumer_data, database, schema>>]_vars

\* the rows a backup holds
ArchiveRows ==
    IF archive.format = "sqlite" THEN Rows(archive.store)
    ELSE LET parsed(table) == LET row_jsons == rows_of(archive.parquet_rows, table)
                              IN {json_loads(row_jsons[i]) : i \in DOMAIN row_jsons}
             table_of(table) == [id \in {row.id : row \in parsed(table)} |->
                                    LET row == CHOOSE r \in parsed(table) : r.id = id
                                    IN [c \in DOMAIN row \ {"id"} |-> row[c]]]
         IN [merchandise |-> table_of("merchandise"),
             consumers |-> DOMAIN table_of("consumers"),
             consumer_data |-> table_of("consumers"),
             sales |-> table_of("sales")]

\* C14: after a successful restore the store holds the rows of the archive and no
\* other row, and the next request reads them.
C14_Replaces ==
    [][Succeeded("restore_database") =>
          /\ Rows(store)' = ArchiveRows
          /\ database' = "sqlite"
          /\ DB_INITIALIZED']_vars

\* a raw backup that holds two sales was restored
C14_Witness ==
    /\ last.op = "restore_database" /\ last.resp = Ok
    /\ archive.format = "sqlite"
    /\ Rows(store) = Rows(archive.store)
    /\ Cardinality(DOMAIN sales) = MaxSales
    /\ initial_stock # <<>>

\* C15: a restore request without a file, or with a file of another extension,
\* answers InvalidArgument and changes nothing.
C15_Rejected ==
    DB_INITIALIZED =>
        /\ restore(File("", Garbage)) = Restored(MissingFile, database, store, DB_INITIALIZED)
        /\ \A kind \in {"archive", "garbage"} :
              restore(File(".txt", Content(kind)))
                  = Restored(UnsupportedRestoreFormat, database, store, DB_INITIALIZED)
        /\ InvalidArgument(MissingFile) /\ InvalidArgument(UnsupportedRestoreFormat)

C15_UnsupportedUpload ==
    /\ []C15_Rejected
    /\ [][last'.op = "restore_database" /\ last'.resp \in {MissingFile, UnsupportedRestoreFormat} =>
              UNCHANGED <<tables, consumer_data, store_file, request>>]_vars

C15_Witness ==
    /\ last.op = "restore_database" /\ last.resp = UnsupportedRestoreFormat
    /\ archive.format = "sqlite"
    /\ Rows(store) # Rows(archive.store)

\* the three tables exist in the store file
TablesExist == database = "sqlite" /\ DOMAIN schema = valid_tables

Handlers ==
    {"add_merchandise", "update_merchandise", "delete_merchandise", "add_consumer",
     "delete_consumer", "record_sale", "update_sale", "delete_sale", "backup_database",
     "restore_database"}

\* C16: a request that finds the store not marked initialized has the three tables
\* created before its handler runs; no handler runs on a store that lacks one of
\* them, and add_consumer then succeeds with the three tables in place.
C16_AutoInit ==
    /\ [](DB_INITIALIZED => TablesExist)
    /\ [][/\ last'.op = "ensure_db_initialized" /\ last'.resp = Ok =>
                ~DB_INITIALIZED /\ DB_INITIALIZED' /\ TablesExist'
          /\ last'.op \in Handlers => DB_INITIALIZED /\ TablesExist /\ TablesExist'
          /\ last'.op = "add_consumer" =>
                /\ last'.resp = Ok
                /\ last'.consumer_id \in consumers' \ consumers]_vars

\* the first consumer was added to a store that holds nothing else, behind the hook
C16_Witness ==
    /\ last.op = "add_consumer" /\ last.resp = Ok
    /\ consumers = {1} /\ merchandise = <<>> /\ sales = <<>>
    /\ schema = CurrentSchema
    /\ TablesExist

\* rows kept with their values, and null in the columns that were added
Migrated(old, new, columns, null) ==
    /\ DOMAIN new = DOMAIN old
    /\ \A id \in DOMAIN old :
          /\ DOMAIN new[id] = columns \ {"id"}
          /\ \A c \in DOMAIN new[id] :
                new[id][c] = IF c \in DOMAIN old[id] THEN old[id][c] ELSE null

\* C17: init_db on a store of any shape leaves the three tables with the current
\* columns, keeps every row with its values and with null in the added columns, and
\* changes nothing when it runs again.
C17_Migration ==
    database # "garbage" =>
        LET st == init_db(store) IN
        /\ DOMAIN st.schema = valid_tables
        /\ \A t \in valid_tables : DOMAIN st.schema[t] = DOMAIN CurrentSchema[t]
        /\ st.merchandise = merchandise
        /\ st.consumers = consumers
        /\ Migrated(consumer_data, st.consumer_data, DOMAIN CurrentSchema.consumers, Null)
        /\ Migrated(sales, st.sales, DOMAIN CurrentSchema.sales, None)
        /\ st.sqlite_sequence = sqlite_sequence
        /\ init_db(st) = st

\* init_db has run on a store that had a sale without consumer_id and consumers
\* with a phone only: the phone is kept, the notes and the consumer_id are null
C17_Witness ==
    /\ last.op = "init_db"
    /\ \E s \in DOMAIN sales : sales[s].consumer_id = None
    /\ \E c \in consumers : consumer_data[c].phone = "legacy" /\ consumer_data[c].notes = Null
    /\ schema.consumers.created_at = ""
    /\ store = init_db(store)

\* C18: requests that amend or reverse the same sale, or record sales of the same
\* item, on different connections each take effect as one atomic transaction:
\* once every request has completed, the item's quantity is again its initial
\* stock less the quantities of the existing sales.
\* It does not hold: the handlers write with the values they read before their
\* transaction began.
C18_ConcurrentLedger ==
    (\A conn \in Connections : request[conn].pc = "idle")
        => \A m \in DOMAIN merchandise : merchandise[m].quantity = initial_stock[m] - SoldOf(m)

\* the two writes of the request r, seen in one step of the store
BothWrites(r) ==
    LET m == r.merchandise_id IN
    IF r.op = "record_sale"
    THEN /\ DOMAIN sales' = DOMAIN sales \cup {sqlite_sequence.sales + 1}
         /\ sqlite_sequence.sales + 1 \notin DOMAIN sales
         /\ sales'[sqlite_sequence.sales + 1].quantity_sold = r.quantity_sold
         /\ merchandise'[m].quantity = merchandise[m].quantity - r.quantity_sold
    ELSE IF r.op = "update_sale"
    THEN /\ merchandise'[m].quantity = merchandise[m].quantity - (r.quantity_sold - r.sale.quantity_sold)
         /\ r.sale_id \in DOMAIN sales =>
                /\ sales'[r.sale_id].quantity_sold = r.quantity_sold
                /\ sales'[r.sale_id].consumer_id = r.consumer_id
    ELSE /\ merchandise'[m].quantity = merchandise[m].quantity + r.sale.quantity_sold
         /\ r.sale_id \notin DOMAIN sales'

\* C19: the two writes of record_sale, update_sale and delete_sale are committed
\* together or not at all: the tables that the other connections read change
\* only in the step that commits a request, and then by both of its writes; a
\* request that fails between its two writes leaves them as they were.
C19_BothOrNeither ==
    [][\/ UNCHANGED tables
       \/ \E conn \in Connections :
              /\ request[conn].pc = "written"
              /\ request'[conn].pc = "done"
              /\ request'[conn].resp = Ok
              /\ BothWrites(request[conn])]_vars

\* a record_sale has failed after its INSERT while another request had passed its
\* checks: there is no sale and the stock is whole
C19_Witness ==
    \E conn, other \in Connections :
        /\ request[conn] = Answered("record_sale", InternalServerError)
        /\ request[other].pc = "checked"
        /\ sales = <<>>
        /\ merchandise[1].quantity = initial_stock[1]

\* C20: every sale row that record_sale created or update_sale amended has
\* total_price = unit_price * quantity_sold, and its unit_price is the price the
\* item had when the sale was recorded: record_sale writes the price it read, and
\* no later request changes the unit_price of a row.
C20_TotalPrice ==
    /\ [](\A s \in DOMAIN sales : sales[s].total_price = sales[s].unit_price * sales[s].quantity_sold)
    /\ [][/\ sqlite_sequence'.sales # sqlite_sequence.sales =>
                /\ last'.op = "record_sale"
                /\ sales'[sqlite_sequence'.sales].unit_price = merchandise[last'.merchandise_id].price
          /\ \A s \in DOMAIN sales \cap DOMAIN sales' : sales'[s].unit_price = sales[s].unit_price]_vars

\* a sale amended to the largest quantity after the price of its item has changed
C20_Witness ==
    /\ last.op = "update_sale" /\ last.resp = Ok
    /\ last.sale_id \in DOMAIN sales
    /\ sales[last.sale_id].quantity_sold = MaxQuantity
    /\ sales[last.sale_id].merchandise_id \in DOMAIN merchandise
    /\ sales[last.sale_id].unit_price # merchandise[sales[last.sale_id].merchandise_id].price

\* C21: the unit_price of a sale never changes once the sale is recorded. No
\* request changes it, a request that changes the price of the item leaves every
\* sale row as it was, and a successful amendment writes the stored unit_price
\* times the new quantity as total_price.
C21_UnitPricePinned ==
    [][/\ \A s \in DOMAIN sales \cap DOMAIN sales' : sales'[s].unit_price = sales[s].unit_price
       /\ last'.op = "update_merchandise" => sales' = sales
       /\ (last'.op = "update_sale" /\ last'.resp = Ok /\ last'.sale_id \in DOMAIN sales) =>
              sales'[last'.sale_id].total_price =
                  sales[last'.sale_id].unit_price * sales'[last'.sale_id].quantity_sold]_vars

\* the price of an item has just been changed; two sales of it stand at two
\* different unit prices, one of them the price before the change
C21_Witness ==
    /\ last.op = "update_merchandise"
    /\ last.merchandise_id \in DOMAIN merchandise
    /\ \E s, t \in DOMAIN sales :
           /\ sales[s].merchandise_id = last.merchandise_id
           /\ sales[t].merchandise_id = last.merchandise_id
           /\ sales[s].unit_price # sales[t].unit_price
           /\ sales[s].unit_price # merchandise[last.merchandise_id].price

\* C22: the quantity of an item created with a quantity of zero or more is never
\* negative after record_sale, update_sale and delete_sale requests run one after
\* the other with any integer quantities, and no request other than these three
\* changes the quantity of an item.
\* It does not hold: delete_sale takes a sale of negative quantity out of the
\* stock without a check, and update_merchandise writes the quantity.
C22_QuantityNonNegative ==
    /\ [](\A m \in DOMAIN merchandise : merchandise[m].quantity >= 0)
    /\ [][\A m \in DOMAIN merchandise \cap DOMAIN merchandise' :
              merchandise'[m].quantity # merchandise[m].quantity =>
                  last'.op \in {"record_sale", "update_sale", "delete_sale"}]_vars

\* C23: a columnar restore inserts the rows table by table, merchandise and
\* consumers before sales, whatever the order of the rows in the archive: no
\* merchandise or consumer row is inserted once a sale row is in, and when the
\* first sale row goes in every merchandise row and every consumer row of the
\* archive is in its table.
C23_TableOrder ==
    [][/\ (DOMAIN merchandise' # DOMAIN merchandise \/ DOMAIN consumer_data' # DOMAIN consumer_data)
              /\ DOMAIN sales' = DOMAIN sales
          => sales = <<>>
       /\ (sales = <<>> /\ sales' # <<>>) =>
              /\ Cardinality(DOMAIN merchandise) = Len(rows_of(archive.parquet_rows, "merchandise"))
              /\ Cardinality(DOMAIN consumer_data) = Len(rows_of(archive.parquet_rows, "consumers"))
              /\ UNCHANGED <<merchandise, consumers, consumer_data>>]_vars

\* an archive that begins with a sale row and holds a merchandise row and a
\* consumer row after it, all three inserted
C23_Witness ==
    /\ archive.parquet_rows[1][1] = "sales"
    /\ sales # <<>>
    /\ merchandise # <<>>
    /\ consumer_data # <<>>

\* the rows of a table among the given ones
RowsIn(table, m, d, sl) == IF table = "merchandise" THEN m ELSE IF table = "consumers" THEN d ELSE sl

MonthOf(t) == ((t \div TicksPerDay) - 1) \div DaysPerMonth

\* the sales a report is to hold: those of the date range when a date is given,
\* whatever the period; else those of the named period; else all
Reported(r) ==
    LET from == r.start_date.kind = "date"
        to == r.end_date.kind = "date"
    IN {s \in DOMAIN sales :
           IF from \/ to
           THEN /\ from => sales[s].sale_date >= r.start_date.day * TicksPerDay
                /\ to => sales[s].sale_date <= r.end_date.day * TicksPerDay + (TicksPerDay - 1)
           ELSE IF r.period = "last_month" THEN MonthOf(sales[s].sale_date) = MonthOf(r.now) - 1
           ELSE IF r.period = "this_month" THEN MonthOf(sales[s].sale_date) >= MonthOf(r.now)
           ELSE IF r.period = "last_30_days"
           THEN sales[s].sale_date >= r.now - ThirtyDays * TicksPerDay
           ELSE TRUE}

\* C25: get_sales applies one filter, by precedence: the date range when a start
\* or an end date is supplied (from 00:00:00 of the start day to 23:59:59 of the
\* end day, both included) and then the period counts for nothing; else the named
\* period; else no filter. The rows come by sale_date descending, each sale once,
\* and the request leaves the store as it was. A date that is no date answers
\* InvalidArgument.
C25_FilterModes ==
    /\ [](\A conn \in Connections :
             request[conn].pc = "done" =>
                 LET r == request[conn] IN
                 IF "malformed" \in {r.start_date.kind, r.end_date.kind}
                 THEN InvalidArgument(r.resp) /\ r.rows = <<>>
                 ELSE /\ r.resp = Ok
                      /\ {r.rows[i] : i \in DOMAIN r.rows} = Reported(r)
                      /\ Len(r.rows) = Cardinality(Reported(r))
                      /\ \A i \in 1..(Len(r.rows) - 1) :
                             sales[r.rows[i]].sale_date >= sales[r.rows[i + 1]].sale_date)
    /\ [][UNCHANGED <<tables, consumer_data, store_file>>]_vars

\* a report by date range, asked with the period this_month, that holds one sale
\* and leaves out a sale of this month made after the end day
C25_Witness ==
    LET r == request[1] IN
    /\ r.pc = "done"
    /\ r.resp = Ok
    /\ r.period = "this_month"
    /\ r.start_date.kind = "date"
    /\ r.end_date.kind = "date"
    /\ Len(r.rows) = 1
    /\ \E s \in DOMAIN sales \ {r.rows[1]} :
           /\ MonthOf(sales[s].sale_date) = MonthOf(r.now)
           /\ sales[s].sale_date > r.end_date.day * TicksPerDay + (TicksPerDay - 1)

====
